---- MODULE Spec2Model ----
(***************************************************************************)
(* Model of src/ppt.py: the markdown-to-slide-plan transformation.         *)
(* Text is a sequence of one-character strings; "\n" is the line break.    *)
(* The pure functions of the program are operators computed the way the    *)
(* code computes them; generate_ppt_from_readme is a state machine with    *)
(* one step per loop iteration.                                            *)
(***************************************************************************)
EXTENDS Integers, Sequences, FiniteSets, TLC

VARIABLES
    pc,           \* the position of the running operation
    content,      \* the text handed to the operation
    sections,     \* the result of parse_readme_content
    key_points,   \* the result of the latest extract_key_points
    code_blocks,  \* the result of the latest extract_code_blocks
    table_data,   \* the rows of the latest create_table_slide
    slides,       \* prs.slides, each slide with the section it was made for
    idx,          \* the position of the loop over sections
    saved,        \* the number of calls of prs.save
    result        \* the value generate_ppt_from_readme returns

vars == <<pc, content, sections, key_points, code_blocks, table_data,
          slides, idx, saved, result>>

----------------------------------------------------------------------------
(* Bounds of the checked input spaces.                                     *)

MaxParseLines == 4
MaxCodeLines == 5
MaxListLines == 9
MaxPointLen == 5
MaxCols == 2
MaxRows == 2
MaxChunks == 4

----------------------------------------------------------------------------
(* Characters and Python's str helpers.                                    *)

NL == "\n"
\* the backquote character (the lexer of TLA+ does not take it inside a string)
BQ == "BQ"
Whitespace == {" ", "\t", "\n"}

MinOf(S) == CHOOSE x \in S : \A y \in S : x <= y
MaxOf(S) == CHOOSE x \in S : \A y \in S : x >= y

\* s[from..] (1-based), the rest of a text
Drop(s, from) == SubSeq(s, from, Len(s))

\* str.strip(chars)
StripChars(s, cs) ==
    LET keep == {i \in 1..Len(s) : s[i] \notin cs}
    IN  IF keep = {} THEN <<>> ELSE SubSeq(s, MinOf(keep), MaxOf(keep))

\* str.strip()
Strip(s) == StripChars(s, Whitespace)

\* str.startswith(p)
StartsWith(s, p) == Len(s) >= Len(p) /\ SubSeq(s, 1, Len(p)) = p

\* p in s, for a non-empty p
Contains(s, p) == \E i \in 1..(Len(s) - Len(p) + 1) : SubSeq(s, i, i + Len(p) - 1) = p

\* str.count(c) for a single character
Count(s, c) == Cardinality({i \in 1..Len(s) : s[i] = c})

\* str.split(sep) for a single-character separator
RECURSIVE Split(_, _)
Split(s, sep) ==
    LET at == {i \in 1..Len(s) : s[i] = sep}
    IN  IF at = {} THEN <<s>>
        ELSE LET i == MinOf(at)
             IN  <<SubSeq(s, 1, i - 1)>> \o Split(Drop(s, i + 1), sep)

\* sep.join(parts)
RECURSIVE Join(_, _)
Join(parts, sep) ==
    IF parts = <<>> THEN <<>>
    ELSE IF Len(parts) = 1 THEN parts[1]
    ELSE parts[1] \o sep \o Join(Tail(parts), sep)

\* all sequences over S of length at most n
SeqsUpTo(S, n) == UNION {[1..k -> S] : k \in 0..n}

----------------------------------------------------------------------------
(* parse_readme_content                                                    *)

\* current_section is None or a str
None == [some |-> FALSE, val |-> <<>>]
Some(v) == [some |-> TRUE, val |-> v]

\* Python truth value of current_section: None and "" are both false
Truthy(cs) == cs.some /\ cs.val # <<>>

\* line.startswith('# ') or line.startswith('## ')
IsHeading(line) == StartsWith(line, <<"#", " ">>) \/ StartsWith(line, <<"#", "#", " ">>)

\* the dict appended to sections
SectionOf(cs, cc) ==
    [title |-> cs.val, content |-> Join(cc, <<NL>>), level |-> Count(cs.val, "#")]

\* one iteration of the loop over lines; st = (sections, current_section, current_content)
ParseStep(st, line) ==
    IF IsHeading(line)
    THEN [sections |-> IF Truthy(st.current_section)
                       THEN Append(st.sections, SectionOf(st.current_section, st.current_content))
                       ELSE st.sections,
          current_section |-> Some(Strip(StripChars(line, {"#"}))),
          current_content |-> <<>>]
    ELSE [sections |-> st.sections,
          current_section |-> st.current_section,
          current_content |-> IF Truthy(st.current_section)
                              THEN Append(st.current_content, line)
                              ELSE st.current_content]

RECURSIVE ParseLoop(_, _)
ParseLoop(st, lines) ==
    IF lines = <<>> THEN st ELSE ParseLoop(ParseStep(st, Head(lines)), Tail(lines))

parse_readme_content(c) ==
    LET st == ParseLoop([sections |-> <<>>, current_section |-> None, current_content |-> <<>>],
                        Split(c, NL))
    IN  IF Truthy(st.current_section)
        THEN Append(st.sections, SectionOf(st.current_section, st.current_content))
        ELSE st.sections

----------------------------------------------------------------------------
(* extract_code_blocks                                                     *)

Fence == <<BQ, BQ, BQ>>

\* line.strip().startswith(FENCE), FENCE being three backquotes
IsFence(line) == StartsWith(Strip(line), Fence)

\* line.strip(BACKQUOTE).strip() or 'text'
LanguageOf(line) ==
    LET l == Strip(StripChars(line, {BQ}))
    IN  IF l = <<>> THEN <<"t", "e", "x", "t">> ELSE l

\* the fence branch that closes a block, without the reset of current_code
CloseKeepingCode(st) ==
    [code_blocks |-> Append(st.code_blocks,
                            [language |-> st.current_language,
                             code |-> Join(st.current_code, <<NL>>)]),
     in_code_block |-> FALSE,
     current_code |-> st.current_code,
     current_language |-> st.current_language]

\* the fence branch that closes a block
CloseBlock(st) ==
    [code_blocks |-> Append(st.code_blocks,
                            [language |-> st.current_language,
                             code |-> Join(st.current_code, <<NL>>)]),
     in_code_block |-> FALSE,
     current_code |-> <<>>,
     current_language |-> st.current_language]

\* one iteration of the loop over lines
CodeStep(st, line) ==
    IF IsFence(line)
    THEN IF st.in_code_block
         THEN CloseBlock(st)
         ELSE [st EXCEPT !.current_language = LanguageOf(line), !.in_code_block = TRUE]
    ELSE IF st.in_code_block
         THEN [st EXCEPT !.current_code = Append(@, line)]
         ELSE st

RECURSIVE CodeLoop(_, _)
CodeLoop(st, lines) ==
    IF lines = <<>> THEN st ELSE CodeLoop(CodeStep(st, Head(lines)), Tail(lines))

extract_code_blocks(c) ==
    CodeLoop([code_blocks |-> <<>>, in_code_block |-> FALSE,
              current_code |-> <<>>, current_language |-> <<>>],
             Split(c, NL)).code_blocks

----------------------------------------------------------------------------
(* re.sub of the inline markup patterns                                    *)

NoNewline(s, from, to) == \A m \in from..to : s[m] # NL

\* re.sub(d (.*?) d, repl, s) for a literal delimiter d: the leftmost d that a
\* later d closes is paired with the nearest such d; the match is replaced by
\* the group (keep) or by nothing; the scan resumes after the match.  The dot
\* matches a newline only under re.DOTALL.
RECURSIVE SubDelim(_, _, _, _)
SubDelim(s, d, keep, dotall) ==
    LET n == Len(d)
        At(i) == SubSeq(s, i, i + n - 1) = d
        Closes(i) == {j \in (i + n)..(Len(s) - n + 1) :
                          At(j) /\ (dotall \/ NoNewline(s, i + n, j - 1))}
        opens == {i \in 1..(Len(s) - n + 1) : At(i) /\ Closes(i) # {}}
    IN  IF opens = {} THEN s
        ELSE LET i == MinOf(opens)
                 j == MinOf(Closes(i))
             IN  SubSeq(s, 1, i - 1)
                 \o (IF keep THEN SubSeq(s, i + n, j - 1) ELSE <<>>)
                 \o SubDelim(Drop(s, j + n), d, keep, dotall)

\* the ends (j, k) of a match of \[(.*?)\]\(.*?\) that starts at i: s[j..j+1]
\* is the first "](" after i that a ")" follows, s[k] the first such ")"
LinkEnds(s, i) ==
    {jk \in ((i + 1)..Len(s)) \X ((i + 3)..Len(s)) :
        /\ s[i] = "["
        /\ jk[1] + 1 < jk[2]
        /\ s[jk[1]] = "]" /\ s[jk[1] + 1] = "(" /\ s[jk[2]] = ")"
        /\ NoNewline(s, i + 1, jk[1] - 1)
        /\ NoNewline(s, jk[1] + 2, jk[2] - 1)}

\* re.search(r'\[.*?\]\(.*?\)', s): s holds literal link syntax
HasLink(s) == \E i \in 1..Len(s) : LinkEnds(s, i) # {}

\* re.sub(r'\[(.*?)\]\(.*?\)', repl, s), repl being the group (keep) or nothing
RECURSIVE SubLink(_, _)
SubLink(s, keep) ==
    LET opens == {i \in 1..Len(s) : LinkEnds(s, i) # {}}
    IN  IF opens = {} THEN s
        ELSE LET i == MinOf(opens)
                 j == MinOf({jk[1] : jk \in LinkEnds(s, i)})
                 k == MinOf({jk[2] : jk \in {e \in LinkEnds(s, i) : e[1] = j}})
             IN  SubSeq(s, 1, i - 1)
                 \o (IF keep THEN SubSeq(s, i + 1, j - 1) ELSE <<>>)
                 \o SubLink(Drop(s, k + 1), keep)

----------------------------------------------------------------------------
(* extract_key_points                                                      *)

\* the class [-*...] of bullet_pattern; its last three members are the three
\* characters the source file holds in place of the bullet glyph
BulletChars == {"-", "*", "U+00E2", "U+20AC", "U+00A2"}
Digits == {"0", "1", "2", "3", "4", "5", "6", "7", "8", "9"}

\* the line after its leading whitespace
LStrip(s) ==
    LET keep == {i \in 1..Len(s) : s[i] \notin Whitespace}
    IN  IF keep = {} THEN <<>> ELSE Drop(s, MinOf(keep))

\* re.match(bullet_pattern, line)
BulletMatch(line) ==
    LET r == LStrip(line)
    IN  Len(r) >= 2 /\ r[1] \in BulletChars /\ NoNewline(r, 2, Len(r))

\* match.group(1).strip() of a bullet line
BulletText(line) == Strip(Drop(LStrip(line), 2))

\* the number of leading digits
LeadDigits(r) ==
    IF \A i \in 1..Len(r) : r[i] \in Digits THEN Len(r)
    ELSE MinOf({i \in 1..Len(r) : r[i] \notin Digits}) - 1

\* re.match(numbered_pattern, line)
NumberedMatch(line) ==
    LET r == LStrip(line)
        d == LeadDigits(r)
    IN  d >= 1 /\ Len(r) >= d + 2 /\ r[d + 1] = "." /\ NoNewline(r, d + 2, Len(r))

\* match.group(1).strip() of a numbered line
NumberedText(line) == LET r == LStrip(line) IN Strip(Drop(r, LeadDigits(r) + 2))

\* the clean-up without the pass over *italic*
CleanPointNoItalic(point) ==
    SubLink(SubDelim(SubDelim(point, <<"*", "*">>, TRUE, FALSE), <<BQ>>, TRUE, FALSE), TRUE)

\* the four re.sub calls that clean up markdown formatting
CleanPoint(point) ==
    SubLink(SubDelim(SubDelim(SubDelim(point, <<"*", "*">>, TRUE, FALSE),
                              <<"*">>, TRUE, FALSE),
                     <<BQ>>, TRUE, FALSE),
            TRUE)

\* the pattern of a pass: the bullet loop, the numbered loop, or both at once
MatchOf(kind, l) ==
    \/ kind \in {"bullet", "either"} /\ BulletMatch(l)
    \/ kind \in {"numbered", "either"} /\ NumberedMatch(l)

TextOf(l) == IF BulletMatch(l) THEN BulletText(l) ELSE NumberedText(l)

\* the points of one loop over the lines, each with the index of its line
RECURSIVE PassFrom(_, _, _)
PassFrom(lines, i, kind) ==
    IF i > Len(lines) THEN <<>>
    ELSE (IF MatchOf(kind, lines[i])
          THEN <<[line |-> i, point |-> CleanPoint(TextOf(lines[i]))]>>
          ELSE <<>>)
         \o PassFrom(lines, i + 1, kind)

\* one loop that takes bullet and numbered lines as they come
PointsInterleaved(lines) == PassFrom(lines, 1, "either")

\* the list points before the cut: the bullet loop, then the numbered loop
PointsFound(lines) == PassFrom(lines, 1, "bullet") \o PassFrom(lines, 1, "numbered")

\* points[:n]
Prefix(s, n) == SubSeq(s, 1, IF Len(s) < n THEN Len(s) ELSE n)

\* points[:8]
LimitPoints(found) == Prefix(found, 8)

\* the returned points, each with the index of the body line it comes from
KeyPointEntries(c) == LimitPoints(PointsFound(Split(c, NL)))

extract_key_points(c) ==
    LET e == KeyPointEntries(c) IN [i \in 1..Len(e) |-> e[i].point]

----------------------------------------------------------------------------
(* The row parsing of create_table_slide                                   *)

\* line.split('|')[1:-1], each cell stripped
RowOf(line) ==
    LET parts == Split(line, "|")
    IN  [j \in 1..(IF Len(parts) > 2 THEN Len(parts) - 2 ELSE 0) |-> Strip(parts[j + 1])]

\* line.strip().startswith('|---')
IsSeparator(line) == StartsWith(Strip(line), <<"|", "-", "-", "-">>)

\* one iteration of the loop over lines
TableStep(td, line) ==
    IF Contains(line, <<"|">>) /\ ~IsSeparator(line) /\ RowOf(line) # <<>>
    THEN Append(td, RowOf(line))
    ELSE td

RECURSIVE TableLoop(_, _)
TableLoop(td, lines) ==
    IF lines = <<>> THEN td ELSE TableLoop(TableStep(td, Head(lines)), Tail(lines))

\* table_data of create_table_slide
ParseTable(data) == TableLoop(<<>>, Split(data, NL))

----------------------------------------------------------------------------
(* generate_ppt_from_readme: the slides it appends                         *)

LowerLetters == <<"a", "b", "c", "d", "e", "f", "g", "h", "i", "j", "k", "l", "m",
                  "n", "o", "p", "q", "r", "s", "t", "u", "v", "w", "x", "y", "z">>
UpperLetters == <<"A", "B", "C", "D", "E", "F", "G", "H", "I", "J", "K", "L", "M",
                  "N", "O", "P", "Q", "R", "S", "T", "U", "V", "W", "X", "Y", "Z">>

IsLetter(c) == \E i \in 1..26 : c = LowerLetters[i] \/ c = UpperLetters[i]

LowerChar(c) ==
    IF \E i \in 1..26 : c = UpperLetters[i]
    THEN LowerLetters[CHOOSE i \in 1..26 : c = UpperLetters[i]] ELSE c

UpperChar(c) ==
    IF \E i \in 1..26 : c = LowerLetters[i]
    THEN UpperLetters[CHOOSE i \in 1..26 : c = LowerLetters[i]] ELSE c

\* str.lower(), on the letters A-Z
Lower(s) == [i \in 1..Len(s) |-> LowerChar(s[i])]

\* str.title(): a letter after a non-letter in upper case, the other letters in lower case
TitleCase(s) ==
    [i \in 1..Len(s) |->
        IF i = 1 \/ ~IsLetter(s[i - 1]) THEN UpperChar(s[i]) ELSE LowerChar(s[i])]

\* str.replace(old, new) for a non-empty old
RECURSIVE Replace(_, _, _)
Replace(s, old, new) ==
    LET at == {i \in 1..(Len(s) - Len(old) + 1) : SubSeq(s, i, i + Len(old) - 1) = old}
    IN  IF at = {} THEN s
        ELSE LET i == MinOf(at)
             IN  SubSeq(s, 1, i - 1) \o new \o Replace(Drop(s, i + Len(old)), old, new)

\* the four characters the source file holds in place of the rocket glyph
Rocket == <<"U+011F", "U+0178", "U+0161", "U+20AC">>

\* the fallback title
DefaultTitle ==
    <<"H", "e", "l", "i", "x", " ", "T", "a", "g", " ", "M", "a", "n", "a",
       "g", "e", "r">>

Subtitle ==
    <<"A", " ", "p", "o", "w", "e", "r", "f", "u", "l", " ", "D", "j", "a",
       "n", "g", "o", " ", "a", "p", "p", "l", "i", "c", "a", "t", "i",
       "o", "n", " ", "f", "o", "r", " ", "m", "i", "g", "r", "a", "t",
       "i", "n", "g", " ", "A", "d", "o", "b", "e", " ", "H", "e", "l",
       "i", "x", " ", "V", "1", " ", "c", "o", "m", "p", "o", "n", "e",
       "n", "t", "s", " ", "t", "o", " ", "V", "2">>

Placeholder ==
    <<"C", "o", "n", "t", "e", "n", "t", " ", "d", "e", "t", "a", "i", "l",
       "s", " ", "i", "n", " ", "d", "o", "c", "u", "m", "e", "n", "t",
       "a", "t", "i", "o", "n">>

AllowList ==
    { <<"a", "p", "i", " ", "e", "n", "d", "p", "o", "i", "n", "t", "s">>,
      <<"c", "o", "r", "e", " ", "c", "o", "m", "p", "o", "n", "e", "n", "t", "s">>,
      <<"p", "r", "o", "j", "e", "c", "t", " ", "s", "t", "r", "u", "c", "t", "u", "r", "e">> }

\* the least length of a section body that gets slides
MinBodyLen == 50

\* len(content.strip()) <= 50
TooShortOrEqual(body) == Len(Strip(body)) <= MinBodyLen

\* len(content.strip()) < 50
TooShort(body) == Len(Strip(body)) < MinBodyLen

\* not sections, were an empty list taken for a result
NeverEmpty(secs) == FALSE

\* not sections
NoSections(secs) == secs = <<>>

\* '|' in content and '---' in content
HasTable(body) == Contains(body, <<"|">>) /\ Contains(body, <<"-", "-", "-">>)

\* title.lower() in [...]
AllowListed(title) == Lower(title) \in AllowList

\* project_title of the title slide
ProjectTitle(secs) ==
    IF secs # <<>> /\ secs[1].title # <<>>
    THEN Strip(Replace(secs[1].title, Rocket, <<>>))
    ELSE DefaultTitle

\* a slide of prs.slides; section is the position of the section it was made
\* for, 0 for the title slide
Slide(kind, title, body, sec) == [kind |-> kind, title |-> title, body |-> body, section |-> sec]

create_title_slide(title, subtitle) == Slide("title", title, subtitle, 0)

create_content_slide(title, body, slide_type, sec) == Slide(slide_type, title, body, sec)

\* the cells of the table: len(table_data) rows of len(table_data[0]) columns
Grid(td) ==
    [i \in 1..Len(td) |->
        [j \in 1..Len(td[1]) |-> IF j <= Len(td[i]) THEN td[i][j] ELSE <<>>]]

\* the slide is added before the rows are parsed; it gets a table only when
\* more than one row is retained
create_table_slide(title, data, sec) ==
    LET td == ParseTable(data)
    IN  Slide("table", title, IF Len(td) > 1 THEN Grid(td) ELSE <<>>, sec)

create_code_slide(title, code_block, sec) == Slide("code", title, code_block.code, sec)

\* code_blocks, all of them
AllBlocks(cb) == cb

\* code_blocks[:2]
ShownBlocks(cb) == Prefix(cb, 2)

\* the slides of the code branch: one per shown block, then the bullet slide
CodeSlides(title, cb, kp, sec) ==
    [i \in 1..Len(ShownBlocks(cb)) |->
        create_code_slide(title \o <<" ", "-", " ">> \o TitleCase(cb[i].language)
                              \o <<" ", "C", "o", "d", "e">>,
                          cb[i], sec)]
    \o (IF kp # <<>> THEN <<create_content_slide(title, kp, "bullet", sec)>> ELSE <<>>)

\* re.sub(r'[#*BACKQUOTE]', '', s)
DropMarkers(s) == SelectSeq(s, LAMBDA c : c \notin {"#", "*", BQ})

\* preview_content of the free-text slide
Preview(body) ==
    LET clean == DropMarkers(SubLink(SubDelim(body, Fence, FALSE, TRUE), FALSE))
        stripped == [i \in 1..Len(Split(clean, NL)) |-> Strip(Split(clean, NL)[i])]
        lines == SelectSeq(stripped, LAMBDA l : l # <<>>)
    IN  IF Len(lines) > 3
        THEN Join(SubSeq(lines, 1, 3), <<" ">>) \o <<".", ".", ".">>
        ELSE Join(lines, <<" ">>)

----------------------------------------------------------------------------
(* generate_ppt_from_readme: its steps                                     *)

\* sections empty: st.error and return None, before any slide
GenNoSections ==
    /\ pc = "gen"
    /\ NoSections(parse_readme_content(content))
    /\ sections' = parse_readme_content(content)
    /\ result' = "None"
    /\ pc' = "done"
    /\ UNCHANGED <<content, key_points, code_blocks, table_data, slides, idx, saved>>

\* the title slide, then the loop over sections
GenTitle ==
    /\ pc = "gen"
    /\ ~NoSections(parse_readme_content(content))
    /\ sections' = parse_readme_content(content)
    /\ slides' = <<create_title_slide(ProjectTitle(parse_readme_content(content)), Subtitle)>>
    /\ idx' = 1
    /\ pc' = "loop"
    /\ UNCHANGED <<content, key_points, code_blocks, table_data, saved, result>>

InLoop == pc = "loop" /\ idx <= Len(sections)

\* continue
SkipSection ==
    /\ InLoop
    /\ TooShort(sections[idx].content)
    /\ idx' = idx + 1
    /\ UNCHANGED <<pc, content, sections, key_points, code_blocks, table_data,
                   slides, saved, result>>

\* a section that is not skipped: both extractions run before the branch
Extracted ==
    /\ InLoop
    /\ ~TooShort(sections[idx].content)
    /\ key_points' = extract_key_points(sections[idx].content)
    /\ code_blocks' = extract_code_blocks(sections[idx].content)
    /\ idx' = idx + 1
    /\ UNCHANGED <<pc, content, sections, saved, result>>

TableSection ==
    /\ Extracted
    /\ AllowListed(sections[idx].title)
    /\ HasTable(sections[idx].content)
    /\ slides' = Append(slides, create_table_slide(sections[idx].title, sections[idx].content, idx))
    /\ table_data' = ParseTable(sections[idx].content)

ListedSection ==
    /\ Extracted
    /\ AllowListed(sections[idx].title)
    /\ ~HasTable(sections[idx].content)
    /\ slides' = Append(slides,
                        create_content_slide(sections[idx].title,
                            IF key_points' # <<>> THEN key_points' ELSE <<Placeholder>>,
                            "bullet", idx))
    /\ UNCHANGED table_data

CodeSection ==
    /\ Extracted
    /\ ~AllowListed(sections[idx].title)
    /\ code_blocks' # <<>>
    /\ slides' = slides \o CodeSlides(sections[idx].title, code_blocks', key_points', idx)
    /\ UNCHANGED table_data

BulletSection ==
    /\ Extracted
    /\ ~AllowListed(sections[idx].title)
    /\ code_blocks' = <<>>
    /\ key_points' # <<>>
    /\ slides' = Append(slides, create_content_slide(sections[idx].title, key_points', "bullet", idx))
    /\ UNCHANGED table_data

TextSection ==
    /\ Extracted
    /\ ~AllowListed(sections[idx].title)
    /\ code_blocks' = <<>>
    /\ key_points' = <<>>
    /\ slides' = Append(slides,
                        create_content_slide(sections[idx].title,
                                             Preview(sections[idx].content), "text", idx))
    /\ UNCHANGED table_data

\* prs.save returns
SaveOk ==
    /\ pc = "loop" /\ idx > Len(sections)
    /\ saved' = saved + 1
    /\ result' = "output_filename"
    /\ pc' = "done"
    /\ UNCHANGED <<content, sections, key_points, code_blocks, table_data, slides, idx>>

\* prs.save raises: st.error and return None
SaveFails ==
    /\ pc = "loop" /\ idx > Len(sections)
    /\ saved' = saved + 1
    /\ result' = "None"
    /\ pc' = "done"
    /\ UNCHANGED <<content, sections, key_points, code_blocks, table_data, slides, idx>>

----------------------------------------------------------------------------
(* Specification of the section segmenter on bounded documents.            *)

ParseLineSet ==
    { <<"#", " ", "A">>, <<"#", "#", " ", "B", " ", "#">>, <<"#", " ">>,
      <<"#", "#", "#", " ", "c">>, <<"x">>, <<" ", "y">>, <<>> }

ParseDocs == {Join(ls, <<NL>>) : ls \in SeqsUpTo(ParseLineSet, MaxParseLines)}

Idle ==
    /\ sections = <<>> /\ key_points = <<>> /\ code_blocks = <<>>
    /\ table_data = <<>> /\ slides = <<>> /\ idx = 0 /\ saved = 0 /\ result = "none"

InitParse == pc = "parse" /\ content \in ParseDocs /\ Idle

DoParse ==
    /\ pc = "parse"
    /\ sections' = parse_readme_content(content)
    /\ pc' = "parsed"
    /\ UNCHANGED <<content, key_points, code_blocks, table_data, slides, idx, saved, result>>

NextParse == DoParse

SpecParse == InitParse /\ [][NextParse]_vars

HasHeading(c) == \E i \in 1..Len(Split(c, NL)) : IsHeading(Split(c, NL)[i])

NonHeadingLines(c) == SelectSeq(Split(c, NL), LAMBDA l : ~IsHeading(l))

\* the bodies of secs, in order, are exactly the lines ls (a body "" holds
\* either no line or one empty line, which its text cannot tell apart)
RECURSIVE BodiesCover(_, _)
BodiesCover(secs, ls) ==
    IF secs = <<>> THEN ls = <<>>
    ELSE LET b == Head(secs).content
             bl == Split(b, NL)
         IN  \/ b = <<>> /\ BodiesCover(Tail(secs), ls)
             \/ /\ Len(ls) >= Len(bl)
                /\ SubSeq(ls, 1, Len(bl)) = bl
                /\ BodiesCover(Tail(secs), Drop(ls, Len(bl) + 1))

\* C1: for a document with at least one heading line, the section bodies in
\* section order hold every non-heading line of the document exactly once and
\* in document order (lines before the first heading and lines after a heading
\* with an empty title included).
C1_AllLinesKept ==
    (pc = "parsed" /\ HasHeading(content)) => BodiesCover(sections, NonHeadingLines(content))

----------------------------------------------------------------------------
(* Specification of the code-block extractor on bounded bodies.            *)

CodeLineSet ==
    { Fence, <<" ", BQ, BQ, BQ, "p", "y", " ">>, <<BQ, BQ>>,
      <<"a">>, <<" ", "b", " ">>, <<>> }

CodeDocs == {Join(ls, <<NL>>) : ls \in SeqsUpTo(CodeLineSet, MaxCodeLines)}

InitCode == pc = "code" /\ content \in CodeDocs /\ Idle

DoCode ==
    /\ pc = "code"
    /\ code_blocks' = extract_code_blocks(content)
    /\ pc' = "coded"
    /\ UNCHANGED <<content, sections, key_points, table_data, slides, idx, saved, result>>

NextCode == DoCode

SpecCode == InitCode /\ [][NextCode]_vars

\* the indices of the fence lines of a body, ascending
FenceLines(c) ==
    LET lines == Split(c, NL)
    IN  SelectSeq([i \in 1..Len(lines) |-> i], LAMBDA i : IsFence(lines[i]))

\* the lines strictly between the k-th opening fence and its closing fence
LinesOfFence(c, k) ==
    LET f == FenceLines(c)
    IN  SubSeq(Split(c, NL), f[2 * k - 1] + 1, f[2 * k] - 1)

\* C2: extract_code_blocks returns one block per complete (opened and closed)
\* fence, in source order, each holding exactly the lines strictly between its
\* two fence lines joined by newlines; a trailing opening fence adds no block
\* and changes none.
C2_CompleteFences ==
    pc = "coded" =>
        /\ Len(code_blocks) = Len(FenceLines(content)) \div 2
        /\ \A k \in 1..Len(code_blocks) :
               code_blocks[k].code = Join(LinesOfFence(content, k), <<NL>>)

\* a complete fence around two lines, one of them blank, then a trailing opening fence
C2_Witness ==
    /\ pc = "coded"
    /\ Len(FenceLines(content)) = 3
    /\ Len(code_blocks) = 1
    /\ Len(LinesOfFence(content, 1)) = 2
    /\ \E i \in 1..2 : LinesOfFence(content, 1)[i] = <<>>

----------------------------------------------------------------------------
(* Specification of the key-point extractor on bounded bodies.             *)

PointChars == {"*", BQ, "[", "]", "(", ")"}

\* one list line with inline markup
MarkupDocs ==
    {prefix \o text : prefix \in {<<"-", " ">>, <<" ", "1", "2", ".">>},
                      text \in SeqsUpTo(PointChars, MaxPointLen)}

ListLineSet == { <<"-", " ", "a">>, <<"2", ".", " ", "b">>, <<"c">> }

\* many list lines, bullets and numbers mixed
ListDocs == {Join(ls, <<NL>>) : ls \in SeqsUpTo(ListLineSet, MaxListLines)}

InitPoints == pc = "points" /\ content \in (MarkupDocs \cup ListDocs) /\ Idle

DoPoints ==
    /\ pc = "points"
    /\ key_points' = extract_key_points(content)
    /\ pc' = "pointed"
    /\ UNCHANGED <<content, sections, code_blocks, table_data, slides, idx, saved, result>>

NextPoints == DoPoints

SpecPoints == InitPoints /\ [][NextPoints]_vars

\* the body lines the returned points come from, in the order of the result
KeyPointLines(c) == LET e == KeyPointEntries(c) IN [i \in 1..Len(e) |-> e[i].line]

\* C3: extract_key_points returns at most 8 points, and no returned point
\* holds a '*', a backquote or literal [text](target) link syntax.
C3_NoMarkupLeft ==
    pc = "pointed" =>
        /\ Len(key_points) <= 8
        /\ \A i \in 1..Len(key_points) :
               /\ Count(key_points[i], "*") = 0
               /\ Count(key_points[i], BQ) = 0
               /\ ~HasLink(key_points[i])

\* C3 as amended: extract_key_points returns at most 8 points; every returned
\* point holds at most one '*' and at most one backquote (the markers are
\* removed in pairs, an unpaired one stays); and a point whose source line
\* holds at most one '[' holds no link syntax (links are resolved in a single
\* pass, so a link nested in the text of another one stays).
C3_PairedMarkupResolved ==
    pc = "pointed" =>
        /\ Len(key_points) <= 8
        /\ \A i \in 1..Len(key_points) :
               /\ Count(key_points[i], "*") <= 1
               /\ Count(key_points[i], BQ) <= 1
               /\ Count(Split(content, NL)[KeyPointLines(content)[i]], "[") <= 1
                      => ~HasLink(key_points[i])

\* a link has been resolved to its (empty) text and an unpaired '*' has stayed
C3_Witness ==
    /\ pc = "pointed"
    /\ HasLink(content)
    /\ Count(content, "[") = 1
    /\ key_points = << <<"*">> >>

\* the indices of the lines of a body that a pass of the given kind takes, ascending
ListLines(c, kind) ==
    LET lines == Split(c, NL)
    IN  SelectSeq([i \in 1..Len(lines) |-> i], LAMBDA i : MatchOf(kind, lines[i]))

\* the points that the lines of the given indices give, in that order
PointsOfLines(c, order) ==
    [k \in 1..Len(order) |-> CleanPoint(TextOf(Split(c, NL)[order[k]]))]

\* C9: the returned key points are in source order, also when bullet lines and
\* numbered lines are mixed, and the cap keeps the first 8 list lines by
\* source position.
C9_SourceOrder ==
    pc = "pointed" =>
        key_points = PointsOfLines(content, Prefix(ListLines(content, "either"), 8))

\* C9 as amended: the returned key points are the points of the bullet lines
\* in source order followed by the points of the numbered lines in source
\* order, and the cap keeps the first 8 points of that list.
C9_BulletsThenNumbers ==
    pc = "pointed" =>
        key_points = PointsOfLines(content,
                         Prefix(ListLines(content, "bullet") \o ListLines(content, "numbered"), 8))

\* a numbered line stands before a bullet line, and the cap has cut the list
C9_Witness ==
    /\ pc = "pointed"
    /\ Len(key_points) = 8
    /\ Len(ListLines(content, "either")) = 9
    /\ \E i \in 1..Len(ListLines(content, "numbered")) :
           \E j \in 1..Len(ListLines(content, "bullet")) :
               ListLines(content, "numbered")[i] < ListLines(content, "bullet")[j]

----------------------------------------------------------------------------
(* Specification of the table row parser on bounded tables.                *)

CellSet == { <<"a">>, <<" ", "b", " ">> }

\* the forms of a cell of the separator row
SepCellSet == { <<"-", "-", "-">>, <<" ", "-", "-", "-", " ">>,
                <<":", "-", "-", "-">>, <<" ", ":", "-", "-", ":", " ">> }

\* | c1 | c2 | ... |
RowText(cells) == <<"|">> \o Join(cells, <<"|">>) \o <<"|">>

\* a header row of h cells, a separator row, r data rows of h cells
TableDocs ==
    UNION { { Join(<<RowText(hd), RowText([j \in 1..h |-> sep])>>
                   \o [i \in 1..r |-> RowText(rows[i])], <<NL>>) :
                 hd \in [1..h -> CellSet], sep \in SepCellSet,
                 rows \in [1..r -> [1..h -> CellSet]] } :
            h \in 1..MaxCols, r \in 0..MaxRows }

InitTable == pc = "table" /\ content \in TableDocs /\ Idle

DoTable ==
    /\ pc = "table"
    /\ table_data' = ParseTable(content)
    /\ pc' = "tabled"
    /\ UNCHANGED <<content, sections, key_points, code_blocks, slides, idx, saved, result>>

NextTable == DoTable

SpecTable == InitTable /\ [][NextTable]_vars

\* C4: for a table of a header row of H cells, a dash separator row and R data
\* rows, the row parsing keeps exactly R+1 rows of H cells each, the header
\* first, and the separator row (dashes, with or without spaces or colons
\* around them) is not among them.
C4_SeparatorDropped ==
    pc = "tabled" =>
        LET lines == Split(content, NL)
            H == Len(Split(lines[1], "|")) - 2
            R == Len(lines) - 2
        IN  /\ Len(table_data) = R + 1
            /\ \A i \in 1..Len(table_data) : Len(table_data[i]) = H
            /\ table_data[1] = RowOf(lines[1])
            /\ \A i \in 1..Len(table_data) :
                   \E j \in 1..Len(table_data[i]) :
                       \E m \in 1..Len(table_data[i][j]) : table_data[i][j][m] \notin {"-", ":"}

----------------------------------------------------------------------------
(* Specification of generate_ppt_from_readme on bounded documents.        *)

HeadIntro ==
    <<"#", " ", "U+011F", "U+0178", "U+0161", "U+20AC", " ", "I", "n", "t",
       "r", "o">>

HeadApi ==
    <<"#", "#", " ", "A", "P", "I", " ", "E", "n", "d", "p", "o", "i", "n",
       "t", "s">>

ChunkText ==
    <<"P", "l", "a", "i", "n", " ", "[", "d", "o", "c", "s", "]", "(", "u",
       ")", " ", "t", "e", "x", "t", NL, "w", "i", "t", "h", " ", "#", "s",
       "o", "m", "e", " ", "*", "m", "a", "r", "k", "s", "*", " ", "i",
       "n", "s", "i", "d", "e", " ", "i", "t", ".">>

ChunkBullet ==
    <<"-", " ", "f", "i", "r", "s", "t", " ", "*", "*", "k", "e", "y", "*",
       "*", " ", "p", "o", "i", "n", "t", " ", "x", "y">>

ChunkCode ==
    <<BQ, BQ, BQ, "p", "y", NL, "p", "r", "i", "n", "t", "(", "1", " ",
       "+", " ", "2", " ", "+", " ", "3", ")", NL, BQ, BQ, BQ>>

ChunkCodeList ==
    <<BQ, BQ, BQ, "s", "h", NL, "-", " ", "n", "o", "t", " ", "a", " ",
       "p", "o", "i", "n", "t", NL, "+", " ", "x", NL, BQ, BQ, BQ>>

ChunkTable ==
    <<"|", " ", "a", " ", "|", " ", "b", " ", "|", NL, "|", "-", "-", "-",
       "|", "-", "-", "-", "|", NL, "|", " ", "1", " ", "|", " ", "2", " ",
       "|">>

ChunkRow ==
    <<"|", " ", "l", "o", "n", "e", " ", "r", "o", "w", " ", "|", " ", "-",
       "-", "-", " ", "h", "e", "r", "e", ".", " ", "|">>

ChunkSet ==
    { HeadIntro, HeadApi, ChunkText, ChunkBullet, ChunkCode, ChunkCodeList,
      ChunkTable, ChunkRow }

\* documents of at most MaxChunks chunks, one chunk after the other
GenDocs == {Join(cs, <<NL>>) : cs \in SeqsUpTo(ChunkSet, MaxChunks)}

InitGen == pc = "gen" /\ content \in GenDocs /\ Idle

NextGen ==
    \/ GenNoSections
    \/ GenTitle
    \/ SkipSection
    \/ TableSection
    \/ ListedSection
    \/ CodeSection
    \/ BulletSection
    \/ TextSection
    \/ SaveOk
    \/ SaveFails

Spec == InitGen /\ [][NextGen]_vars

\* the sections the loop has passed
Processed == {s \in 1..Len(sections) : pc = "done" \/ (pc = "loop" /\ s < idx)}

\* the slides made for section s, in deck order
SlidesOf(s) == SelectSeq(slides, LAMBDA sl : sl.section = s)

\* the slide-type tags of the slides made for section s
Tags(s) == [i \in 1..Len(SlidesOf(s)) |-> SlidesOf(s)[i].kind]

\* the number of complete (opened and closed) fences of a body
CompleteFences(body) == Len(FenceLines(body)) \div 2

\* line i of the body lies strictly between an opening fence and its closing fence
InsideFence(body, i) ==
    \E k \in 1..CompleteFences(body) :
        FenceLines(body)[2 * k - 1] < i /\ i < FenceLines(body)[2 * k]

Times(n, x) == [i \in 1..n |-> x]

\* the tags the ordered rules give: allow-listed title, code, key points, free text
ExpectedTags(title, body) ==
    LET k == CompleteFences(body)
        points == ListLines(body, "either") # <<>>
    IN  IF AllowListed(title)
        THEN <<IF HasTable(body) THEN "table" ELSE "bullet">>
        ELSE IF k >= 1
        THEN Times(IF k < 2 THEN k ELSE 2, "code") \o (IF points THEN <<"bullet">> ELSE <<>>)
        ELSE IF points THEN <<"bullet">>
        ELSE <<"text">>

\* C5: for a section whose trimmed body has at least 50 characters, the slide
\* tags are the output of the first matching rule only, in the order
\* allow-listed title > code > key points > free text: an allow-listed title
\* gives exactly one slide (table if the body has both '|' and '---', else
\* bullet) and never a code slide; otherwise k >= 1 code blocks give min(k, 2)
\* code slides and then one bullet slide iff key points were found; otherwise
\* key points give one bullet slide; otherwise one text slide.
C5_FirstMatchingRule ==
    \A s \in Processed :
        Len(Strip(sections[s].content)) >= MinBodyLen
            => Tags(s) = ExpectedTags(sections[s].title, sections[s].content)

\* a section of three code blocks and a list line has given two code slides and a bullet slide
C5_Witness ==
    /\ pc = "done"
    /\ \E s \in Processed :
           /\ ~AllowListed(sections[s].title)
           /\ CompleteFences(sections[s].content) = 3
           /\ Tags(s) = <<"code", "code", "bullet">>

\* C6: a table slide is appended only when the row parser retains at least
\* two rows: a section routed to create_table_slide whose body gives fewer
\* than two rows adds no table slide to the deck.
C6_NoTableSlideUnderTwoRows ==
    \A s \in Processed :
        ( /\ ~TooShort(sections[s].content)
          /\ AllowListed(sections[s].title)
          /\ HasTable(sections[s].content)
          /\ Len(ParseTable(sections[s].content)) < 2 )
            => \A i \in 1..Len(SlidesOf(s)) : SlidesOf(s)[i].kind # "table"

\* C7: a section whose trimmed body is shorter than 50 characters gives no
\* slide, whatever its title, code blocks, key points or table; the only slide
\* that derives from such a section is the title slide of the deck; and a
\* body of exactly 50 characters is not skipped.
C7_ShortSectionsSkipped ==
    /\ \A s \in Processed :
           /\ Len(Strip(sections[s].content)) < 50 => SlidesOf(s) = <<>>
           /\ Len(Strip(sections[s].content)) = 50 => SlidesOf(s) # <<>>
    /\ \A i \in 2..Len(slides) :
           /\ slides[i].section \in 1..Len(sections)
           /\ Len(Strip(sections[slides[i].section].content)) >= 50

\* a first section with a key point and a short body has given the title slide
\* only, and a section of exactly 50 characters has given a slide
C7_Witness ==
    /\ pc = "done"
    /\ Len(sections) = 2
    /\ Len(Strip(sections[1].content)) \in 1..49
    /\ ListLines(sections[1].content, "either") # <<>>
    /\ Len(Strip(sections[2].content)) = 50
    /\ Len(slides) = 2
    /\ slides[2].section = 2

\* C8: for a document without a heading line, parse_readme_content returns no
\* section and generate_ppt_from_readme returns None with no slide appended
\* (not even the title slide) and no call of save; and whenever there is a
\* section, exactly one title slide is appended, as the first slide.
C8_NoHeadingNoDeck ==
    pc # "gen" =>
        /\ ~HasHeading(content) =>
               /\ sections = <<>> /\ pc = "done" /\ result = "None"
               /\ slides = <<>> /\ saved = 0
        /\ sections # <<>> =>
               /\ slides # <<>>
               /\ {i \in 1..Len(slides) : slides[i].kind = "title"} = {1}

\* a document of text without a heading has ended with None, no slide and no save
C8_Witness ==
    /\ pc = "done"
    /\ content # <<>>
    /\ ~HasHeading(content)
    /\ result = "None"
    /\ slides = <<>>
    /\ saved = 0

\* C10: the lines between an opening fence and its closing fence are taken as
\* code only: no key point of a bullet slide made for a section comes from a
\* line inside a complete fence of the body of that section.
C10_NoPointFromInsideFence ==
    \A s \in Processed :
        \A i \in 1..Len(SlidesOf(s)) :
            SlidesOf(s)[i].kind = "bullet"
                => \A k \in 1..Len(KeyPointLines(sections[s].content)) :
                       ~InsideFence(sections[s].content, KeyPointLines(sections[s].content)[k])

====
